---- MODULE Spec2Model ----
(***************************************************************************)
(* CalDAV calendar client (caldav_tool): the Connection/CRUD layer          *)
(* (caldav_client.py, class CalDAVClient) and the Schema/Translation layer  *)
(* (mcp_service.py, class CalDAVTool) over an abstract CalDAV server.       *)
(*                                                                          *)
(* Every method of CalDAVClient is an operator client_<method> that maps    *)
(* the server's state, the arguments and the outcome of each remote call    *)
(* to the server's new state, the remote calls issued, the value returned   *)
(* and the exception thrown.  Every method of CalDAVTool is an action.      *)
(* A remote call either succeeds or raises; the except clauses of the       *)
(* source tell three classes apart: error.NotFoundError, error.DAVError     *)
(* (its base class) and everything else (caught only by "except Exception").*)
(***************************************************************************)
EXTENDS Integers, Sequences, FiniteSets, TLC

VARIABLES session, calendars, events, uuidCount, last

vars == <<session, calendars, events, uuidCount, last>>

(* ------------------------------ bounds -------------------------------- *)
\* uuid.uuid4() is called at most MaxUuid times in a behaviour.
MaxUuid == 1
\* Timestamps are counted in ticks, TicksPerSecond ticks to the second;
\* the ticks within a second stand for datetime.microsecond.
TicksPerSecond == 2

(* ------------------------------ values -------------------------------- *)
\* Python's None as it appears as an attribute value of a schema.
None == "None"
\* A method's return value None / False / True / [].
Nil == [kind |-> "None"]
Bool(b) == [kind |-> "bool", value |-> b]
List(s) == [kind |-> "list", items |-> s]

\* No exception left the call.
NoExc == "none"
\* The spec's ConfigurationError is the ValueError of caldav_client.py:23.
ConfigurationError == "ValueError"

\* str(uuid.uuid4()): the n-th identifier generated.
Uuid(n) == "u" \o ToString(n)
Uuids == {Uuid(n) : n \in 1..MaxUuid}
\* The identifiers given as arguments: the empty string, the calendar and
\* the event the server holds from the start, and the generated ones.
CalendarIds == {"", "c0"} \cup Uuids
EventUids == {"", "e0"} \cup Uuids

Credentials == {"", "x"}
\* Calendars are created as "Work"; update_calendar is given Names.
Names == {"", "Home"}
Summaries == {"", "Standup"}
Descriptions == {"", "notes"}
\* Second 0, an instant within second 0, second 1.
Times == {0, 1, TicksPerSecond}
\* The (start, end) pairs given as arguments: whole seconds, a start within
\* a second, an end within a second (and before the start).
Spans == {<<0, TicksPerSecond>>, <<1, TicksPerSecond>>, <<TicksPerSecond, 1>>}
\* datetime.utcnow() at line 119.
Clock == {1}

\* Outcomes a remote call is made to end with; "ok" lets the server answer.
Failures == {"DAVError", "OtherError"}
\* error.NotFoundError is a subclass of error.DAVError.
IsDAVError(o) == o \in {"NotFoundError", "DAVError"}
\* A method call issues its remote calls in order and ends at the first
\* that fails: Faults(n) are the ways a method of n remote calls can go, the
\* position of the failing call (0: none fails) and the failure.
Faults(n) == {<<0, "ok">>} \cup ((1..n) \X Failures)
Outcome(p, kind, i) == IF p = i THEN kind ELSE "ok"

Call(name, outcome) == [name |-> name, outcome |-> outcome]

Put(f, k, v) == [x \in (DOMAIN f) \cup {k} |-> IF x = k THEN v ELSE f[x]]
Drop(f, K) == [x \in (DOMAIN f) \ K |-> f[x]]
Empty == [x \in {} |-> 0]

\* What a method call did: the server afterwards, the remote calls issued in
\* order with their outcomes, the value returned, the exception thrown.
Ret(cs, es, calls, result, thrown) ==
  [cals |-> cs, evts |-> es, calls |-> calls, result |-> result, thrown |-> thrown]

(* ----------------------- CalDAVClient.__init__ ------------------------ *)
\* A validation that looks at the url alone.
AllNonEmpty_UrlOnly(url, username, password) ==
  url # ""

\* all([url, username, password])
AllNonEmpty(url, username, password) ==
  url # "" /\ username # "" /\ password # ""

\* The constructor: [calls, thrown]; the handshake is client.principal().
client_init(url, username, password, o) ==
  IF ~AllNonEmpty(url, username, password)
  THEN [calls |-> <<>>, thrown |-> "ValueError"]
  ELSE [calls |-> <<Call("DAVClient", "ok"), Call("client.principal", o)>>,
        thrown |-> IF o = "ok" THEN NoExc
                   ELSE IF IsDAVError(o) THEN "ConnectionError" ELSE o]

(* --------------------------- calendars -------------------------------- *)
CalendarHandle(cs, id) ==
  [kind |-> "Calendar", id |-> id, name |-> cs[id].name, url |-> "/cal/" \o id]

\* principal.calendar(cal_id=...) against the server.
FetchOutcome(cs, id, o) ==
  IF o # "ok" THEN o ELSE IF id \in DOMAIN cs THEN "ok" ELSE "NotFoundError"

client_get_calendar(cs, es, calendar_id, o) ==
  IF calendar_id = "" THEN Ret(cs, es, <<>>, Nil, NoExc)
  ELSE LET out == FetchOutcome(cs, calendar_id, o) IN
       Ret(cs, es, <<Call("principal.calendar", out)>>,
           IF out = "ok" THEN CalendarHandle(cs, calendar_id) ELSE Nil,
           IF out = "ok" \/ IsDAVError(out) THEN NoExc ELSE out)

client_list_calendars(cs, es, o) ==
  Ret(cs, es, <<Call("principal.calendars", o)>>,
      IF o = "ok" THEN List({CalendarHandle(cs, id) : id \in DOMAIN cs}) ELSE Nil,
      IF o = "ok" THEN NoExc ELSE IF IsDAVError(o) THEN "ConnectionError" ELSE o)

\* A create that deletes the new calendar again when the description
\* cannot be set.
client_create_calendar_Rollback(cs, es, name, description, calendar_id, p, kind) ==
  LET o1 == Outcome(p, kind, 1)
      o2 == Outcome(p, kind, 2)
      made == Put(cs, calendar_id, [name |-> name, description |-> None])
      described == Put(cs, calendar_id, [name |-> name, description |-> description])
      thrown(o) == IF IsDAVError(o) THEN NoExc ELSE o
  IN  IF o1 # "ok"
      THEN Ret(cs, es, <<Call("principal.make_calendar", o1)>>, Nil, thrown(o1))
      ELSE IF description = ""
      THEN Ret(made, es, <<Call("principal.make_calendar", o1)>>,
               CalendarHandle(made, calendar_id), NoExc)
      ELSE IF o2 # "ok"
      THEN Ret(cs, es,
               <<Call("principal.make_calendar", o1), Call("calendar.set_properties", o2)>>,
               Nil, thrown(o2))
      ELSE Ret(described, es,
               <<Call("principal.make_calendar", o1), Call("calendar.set_properties", o2)>>,
               CalendarHandle(described, calendar_id), NoExc)

\* create_calendar: calendar_id is the uuid generated at line 45.
client_create_calendar(cs, es, name, description, calendar_id, p, kind) ==
  LET o1 == Outcome(p, kind, 1)
      o2 == Outcome(p, kind, 2)
      made == Put(cs, calendar_id, [name |-> name, description |-> None])
      described == Put(cs, calendar_id, [name |-> name, description |-> description])
      thrown(o) == IF IsDAVError(o) THEN NoExc ELSE o
  IN  IF o1 # "ok"
      THEN Ret(cs, es, <<Call("principal.make_calendar", o1)>>, Nil, thrown(o1))
      ELSE IF description = ""
      THEN Ret(made, es, <<Call("principal.make_calendar", o1)>>,
               CalendarHandle(made, calendar_id), NoExc)
      ELSE IF o2 # "ok"
      THEN Ret(made, es,
               <<Call("principal.make_calendar", o1), Call("calendar.set_properties", o2)>>,
               Nil, thrown(o2))
      ELSE Ret(described, es,
               <<Call("principal.make_calendar", o1), Call("calendar.set_properties", o2)>>,
               CalendarHandle(described, calendar_id), NoExc)

\* An update that validates the new name only after fetching the calendar.
client_update_calendar_FetchFirst(cs, es, calendar_id, name, p, kind) ==
  LET g == client_get_calendar(cs, es, calendar_id, Outcome(p, kind, 1))
      o2 == Outcome(p, kind, 2)
      renamed == [cs EXCEPT ![calendar_id].name = name]
  IN  IF g.thrown # NoExc \/ g.result = Nil THEN g
      ELSE IF name = "" THEN [g EXCEPT !.result = Nil]
      ELSE IF o2 = "ok"
      THEN Ret(renamed, es, g.calls \o <<Call("calendar.set_properties", o2)>>,
               CalendarHandle(renamed, calendar_id), NoExc)
      ELSE Ret(cs, es, g.calls \o <<Call("calendar.set_properties", o2)>>,
               Nil, IF IsDAVError(o2) THEN NoExc ELSE o2)

client_update_calendar(cs, es, calendar_id, name, p, kind) ==
  IF name = "" THEN Ret(cs, es, <<>>, Nil, NoExc)
  ELSE LET g == client_get_calendar(cs, es, calendar_id, Outcome(p, kind, 1))
           o2 == Outcome(p, kind, 2)
           renamed == [cs EXCEPT ![calendar_id].name = name]
       IN  IF g.thrown # NoExc \/ g.result = Nil THEN g
           ELSE IF o2 = "ok"
           THEN Ret(renamed, es, g.calls \o <<Call("calendar.set_properties", o2)>>,
                    CalendarHandle(renamed, calendar_id), NoExc)
           ELSE Ret(cs, es, g.calls \o <<Call("calendar.set_properties", o2)>>,
                    Nil, IF IsDAVError(o2) THEN NoExc ELSE o2)

\* The events of a deleted collection go with it.
EventsOutside(es, calendar_id) ==
  Drop(es, {k \in DOMAIN es : k[1] = calendar_id})

client_delete_calendar(cs, es, calendar_id, p, kind) ==
  LET g == client_get_calendar(cs, es, calendar_id, Outcome(p, kind, 1))
      o2 == Outcome(p, kind, 2)
  IN  IF g.thrown # NoExc THEN g
      ELSE IF g.result = Nil THEN [g EXCEPT !.result = Bool(FALSE)]
      ELSE IF o2 = "ok"
      THEN Ret(Drop(cs, {calendar_id}), EventsOutside(es, calendar_id),
               g.calls \o <<Call("calendar.delete", o2)>>, Bool(TRUE), NoExc)
      ELSE Ret(cs, es, g.calls \o <<Call("calendar.delete", o2)>>,
               IF IsDAVError(o2) THEN Bool(FALSE) ELSE Nil,
               IF IsDAVError(o2) THEN NoExc ELSE o2)

(* ----------------------------- events --------------------------------- *)
\* The calendar-object text carries date-times to the second
\* (vcal.serialize() writes YYYYMMDDTHHMMSS); reading it back gives a
\* datetime with microsecond 0.
DateFields == {"dtstamp", "dtstart", "dtend"}
dateTimeToString(t) == t \div TicksPerSecond
stringToDateTime(s) == s * TicksPerSecond

\* vcal.serialize(): the record as stored on the server.
serialize(vevent) ==
  [k \in DOMAIN vevent |->
     IF k \in DateFields THEN dateTimeToString(vevent[k]) ELSE vevent[k]]
\* event.vobject_instance.vevent: the stored text parsed.
vobject_instance(data) ==
  [k \in DOMAIN data |->
     IF k \in DateFields THEN stringToDateTime(data[k]) ELSE data[k]]

EventHandle(calendar_id, data) ==
  [kind |-> "Event", calendar |-> calendar_id, data |-> data]

\* A record whose DTEND is written from the start argument.
NewVEvent_EndFromStart(uid, now, start, end, summary, description) ==
  LET base == [uid |-> uid, dtstamp |-> now, dtstart |-> start,
               dtend |-> start, summary |-> summary]
  IN  IF description # "" THEN Put(base, "description", description) ELSE base

\* Lines 116-124: the minimal record built by create_event.
NewVEvent(uid, now, start, end, summary, description) ==
  LET base == [uid |-> uid, dtstamp |-> now, dtstart |-> start,
               dtend |-> end, summary |-> summary]
  IN  IF description # "" THEN Put(base, "description", description) ELSE base

client_create_event(cs, es, calendar_id, summary, start, end, description, uid, now, p, kind) ==
  LET g == client_get_calendar(cs, es, calendar_id, Outcome(p, kind, 1))
      o2 == Outcome(p, kind, 2)
      data == serialize(NewVEvent(uid, now, start, end, summary, description))
  IN  IF g.thrown # NoExc THEN g
      ELSE IF g.result = Nil \/ summary = "" THEN [g EXCEPT !.result = Nil]
      ELSE IF o2 = "ok"
      THEN Ret(cs, Put(es, <<calendar_id, uid>>, data),
               g.calls \o <<Call("calendar.save_event", o2)>>,
               EventHandle(calendar_id, data), NoExc)
      ELSE Ret(cs, es, g.calls \o <<Call("calendar.save_event", o2)>>,
               Nil, IF IsDAVError(o2) THEN NoExc ELSE o2)

\* calendar.event_by_uid(uid=...) against the server.
LookupOutcome(es, calendar_id, event_uid, o) ==
  IF o # "ok" THEN o
  ELSE IF <<calendar_id, event_uid>> \in DOMAIN es THEN "ok" ELSE "NotFoundError"

client_get_event(cs, es, calendar_id, event_uid, p, kind) ==
  LET g == client_get_calendar(cs, es, calendar_id, Outcome(p, kind, 1))
      out == LookupOutcome(es, calendar_id, event_uid, Outcome(p, kind, 2))
  IN  IF g.thrown # NoExc THEN g
      ELSE IF g.result = Nil \/ event_uid = "" THEN [g EXCEPT !.result = Nil]
      ELSE Ret(cs, es, g.calls \o <<Call("calendar.event_by_uid", out)>>,
               IF out = "ok" THEN EventHandle(calendar_id, es[<<calendar_id, event_uid>>])
               ELSE Nil,
               IF out = "ok" \/ IsDAVError(out) THEN NoExc ELSE out)

\* A delete that reports success without asking the server to delete.
client_delete_event_NoDelete(cs, es, calendar_id, event_uid, p, kind) ==
  LET g == client_get_event(cs, es, calendar_id, event_uid, p, kind)
  IN  IF g.thrown # NoExc THEN g
      ELSE IF g.result = Nil THEN [g EXCEPT !.result = Bool(FALSE)]
      ELSE [g EXCEPT !.result = Bool(TRUE)]

client_delete_event(cs, es, calendar_id, event_uid, p, kind) ==
  LET g == client_get_event(cs, es, calendar_id, event_uid, p, kind)
      o3 == Outcome(p, kind, 3)
  IN  IF g.thrown # NoExc THEN g
      ELSE IF g.result = Nil THEN [g EXCEPT !.result = Bool(FALSE)]
      ELSE IF o3 = "ok"
      THEN Ret(cs, Drop(es, {<<calendar_id, event_uid>>}),
               g.calls \o <<Call("event.delete", o3)>>, Bool(TRUE), NoExc)
      ELSE Ret(cs, es, g.calls \o <<Call("event.delete", o3)>>,
               IF IsDAVError(o3) THEN Bool(FALSE) ELSE Nil,
               IF IsDAVError(o3) THEN NoExc ELSE o3)

\* A patch that only adds: a field the record has keeps its value.
ApplyUpdates_AddOnly(v_event, updates) ==
  [k \in (DOMAIN v_event) \cup (DOMAIN updates) |->
     IF k \in DOMAIN v_event THEN v_event[k] ELSE updates[k]]

\* Lines 165-169: a field the record has is overwritten, another is added.
ApplyUpdates(v_event, updates) ==
  [k \in (DOMAIN v_event) \cup (DOMAIN updates) |->
     IF k \in DOMAIN updates THEN updates[k] ELSE v_event[k]]

client_update_event(cs, es, calendar_id, event_uid, updates, p, kind) ==
  LET g == client_get_event(cs, es, calendar_id, event_uid, p, kind)
      o3 == Outcome(p, kind, 3)
      data == serialize(ApplyUpdates(vobject_instance(g.result.data), updates))
  IN  IF g.thrown # NoExc \/ g.result = Nil THEN g
      ELSE IF o3 = "ok"
      THEN Ret(cs, [es EXCEPT ![<<calendar_id, event_uid>>] = data],
               g.calls \o <<Call("event.save", o3)>>,
               EventHandle(calendar_id, data), NoExc)
      ELSE \* except Exception: every failure of the save ends in None
           Ret(cs, es, g.calls \o <<Call("event.save", o3)>>, Nil, NoExc)

\* calendar.date_search(start, end, expand=True): the time-range filter is
\* the server's; start and end travel as text, to the second.
Overlaps(data, start_date, end_date) ==
  /\ data.dtstart < dateTimeToString(end_date)
  /\ data.dtend > dateTimeToString(start_date)

client_list_events(cs, es, calendar_id, start_date, end_date, p, kind) ==
  LET g == client_get_calendar(cs, es, calendar_id, Outcome(p, kind, 1))
      o2 == Outcome(p, kind, 2)
      found == {EventHandle(calendar_id, es[k]) :
                  k \in {x \in DOMAIN es : x[1] = calendar_id
                                           /\ Overlaps(es[x], start_date, end_date)}}
  IN  IF g.thrown # NoExc THEN g
      ELSE IF g.result = Nil THEN [g EXCEPT !.result = List({})]
      ELSE IF o2 = "ok"
      THEN Ret(cs, es, g.calls \o <<Call("calendar.date_search", o2)>>, List(found), NoExc)
      ELSE Ret(cs, es, g.calls \o <<Call("calendar.date_search", o2)>>,
               IF IsDAVError(o2) THEN List({}) ELSE Nil,
               IF IsDAVError(o2) THEN NoExc ELSE o2)

(* -------------------- CalDAVTool: schema translation ------------------ *)
\* A Calendar handle has no attribute 'description': getattr gives ''.
to_calendar_schema(calendar) ==
  [kind |-> "CalendarSchema", id |-> calendar.id, name |-> calendar.name,
   description |-> "", url |-> calendar.url]

to_event_schema(event) ==
  LET v_event == vobject_instance(event.data)
  IN  [kind |-> "EventSchema",
       id |-> v_event.uid,
       summary |-> v_event.summary,
       start_time |-> v_event.dtstart,
       end_time |-> v_event.dtend,
       description |-> IF "description" \in DOMAIN v_event
                       THEN v_event.description ELSE None]

\* "self._to_calendar_schema(calendar) if calendar else None"; an exception
\* passes through.
CalendarResult(r) ==
  IF r.thrown # NoExc \/ r.result = Nil THEN r
  ELSE [r EXCEPT !.result = to_calendar_schema(r.result)]
\* "self._to_event_schema(event) if event else None"
EventResult(r) ==
  IF r.thrown # NoExc \/ r.result = Nil THEN r
  ELSE [r EXCEPT !.result = to_event_schema(r.result)]
\* "[self._to_calendar_schema(cal) for cal in calendars if cal]"
CalendarListResult(r) ==
  IF r.thrown # NoExc THEN r
  ELSE [r EXCEPT !.result =
          List({to_calendar_schema(x) : x \in {y \in r.result.items : y # Nil}})]
\* "[self._to_event_schema(event) for event in events if event]"
EventListResult(r) ==
  IF r.thrown # NoExc THEN r
  ELSE [r EXCEPT !.result =
          List({to_event_schema(x) : x \in {y \in r.result.items : y # Nil}})]

tool_get_calendar(cs, es, calendar_id, o) ==
  CalendarResult(client_get_calendar(cs, es, calendar_id, o))
tool_create_event(cs, es, calendar_id, summary, start, end, description, uid, now, p, kind) ==
  EventResult(client_create_event(cs, es, calendar_id, summary, start, end,
                                 description, uid, now, p, kind))
tool_get_event(cs, es, calendar_id, event_uid, p, kind) ==
  EventResult(client_get_event(cs, es, calendar_id, event_uid, p, kind))
tool_update_event(cs, es, calendar_id, event_uid, updates, p, kind) ==
  EventResult(client_update_event(cs, es, calendar_id, event_uid, updates, p, kind))

(* --------------------------- the state -------------------------------- *)
\* The update maps given to update_event.
Updates ==
  {[summary |-> "Renamed"], [dtstart |-> 1], [summary |-> "Renamed", location |-> "room"]}

Done(op, args, r, uuid) ==
  [op |-> op, args |-> args, calls |-> r.calls, result |-> r.result,
   thrown |-> r.thrown, uuid |-> uuid]

\* No call is in progress and no result is waiting for the caller.
Idle ==
  [op |-> "none", args |-> <<>>, calls |-> <<>>, result |-> Nil,
   thrown |-> NoExc, uuid |-> ""]

\* The account is not new: the server holds a calendar with one event, as
\* the one test_caldav_locally (lines 201-203) works on.
Init ==
  /\ session = "new"
  /\ calendars = [x \in {"c0"} |-> [name |-> "Personal", description |-> None]]
  /\ events = [x \in {<<"c0", "e0">>} |->
                 [uid |-> "e0", dtstamp |-> 0, dtstart |-> 0, dtend |-> 1,
                  summary |-> "Lunch"]]
  /\ uuidCount = 0
  /\ last = Idle

\* The server is changed by nothing but the calls of this session.
Apply(op, args, r, uuid) ==
  /\ calendars' = r.cals
  /\ events' = r.evts
  /\ last' = Done(op, args, r, uuid)
  /\ uuidCount' = IF uuid = "" THEN uuidCount ELSE uuidCount + 1
  /\ UNCHANGED session

(* ---------------------------- the actions ----------------------------- *)
\* CalDAVClient(url, username, password), as CalDAVTool.__init__ calls it.
Construct ==
  /\ session = "new"
  /\ last = Idle
  /\ \E url \in Credentials, username \in Credentials, password \in Credentials,
        o \in {"ok"} \cup Failures :
       LET r == client_init(url, username, password, o) IN
       /\ session' = IF r.thrown = NoExc THEN "ready" ELSE "new"
       /\ last' = [op |-> "__init__",
                   args |-> [url |-> url, username |-> username, password |-> password],
                   calls |-> r.calls, result |-> Nil, thrown |-> r.thrown, uuid |-> ""]
       /\ UNCHANGED <<calendars, events, uuidCount>>

list_calendars ==
  /\ session = "ready"
  /\ last = Idle
  /\ \E o \in {"ok"} \cup Failures :
       Apply("list_calendars", <<>>,
             CalendarListResult(client_list_calendars(calendars, events, o)),
             "")

create_calendar ==
  /\ session = "ready"
  /\ last = Idle
  /\ uuidCount < MaxUuid
  /\ \E name \in {"Work"}, description \in Descriptions, f \in Faults(2) :
       LET calendar_id == Uuid(uuidCount + 1) IN
       Apply("create_calendar", [name |-> name, description |-> description],
             CalendarResult(client_create_calendar(calendars, events, name, description,
                                               calendar_id, f[1], f[2])),
             calendar_id)

get_calendar ==
  /\ session = "ready"
  /\ last = Idle
  /\ \E calendar_id \in CalendarIds, f \in Faults(1) :
       Apply("get_calendar", [calendar_id |-> calendar_id],
             tool_get_calendar(calendars, events, calendar_id, Outcome(f[1], f[2], 1)), "")

update_calendar ==
  /\ session = "ready"
  /\ last = Idle
  /\ \E calendar_id \in CalendarIds, name \in Names, f \in Faults(2) :
       Apply("update_calendar", [calendar_id |-> calendar_id, name |-> name],
             CalendarResult(client_update_calendar(calendars, events, calendar_id, name, f[1], f[2])), "")

delete_calendar ==
  /\ session = "ready"
  /\ last = Idle
  /\ \E calendar_id \in CalendarIds, f \in Faults(2) :
       Apply("delete_calendar", [calendar_id |-> calendar_id],
             client_delete_calendar(calendars, events, calendar_id, f[1], f[2]), "")

list_events ==
  /\ session = "ready"
  /\ last = Idle
  /\ \E calendar_id \in CalendarIds, span \in Spans, f \in Faults(2) :
       Apply("list_events",
             [calendar_id |-> calendar_id, start_date |-> span[1], end_date |-> span[2]],
             EventListResult(client_list_events(calendars, events, calendar_id, span[1],
                                               span[2], f[1], f[2])), "")

create_event ==
  /\ session = "ready"
  /\ last = Idle
  /\ \E calendar_id \in CalendarIds, summary \in Summaries, span \in Spans,
        description \in Descriptions, now \in Clock, f \in Faults(2) :
       LET uid == Uuid(uuidCount + 1)
           start == span[1]
           end == span[2]
           r == tool_create_event(calendars, events, calendar_id, summary, start, end,
                                  description, uid, now, f[1], f[2])
           \* uuid.uuid4() at line 118 is reached exactly when save_event is
           generated == Len(r.calls) = 2
       IN  /\ generated => uuidCount < MaxUuid
           /\ Apply("create_event",
                    [calendar_id |-> calendar_id, summary |-> summary, start |-> start,
                     end |-> end, description |-> description],
                    r, IF generated THEN uid ELSE "")

get_event ==
  /\ session = "ready"
  /\ last = Idle
  /\ \E calendar_id \in CalendarIds, event_uid \in EventUids, f \in Faults(3) :
       Apply("get_event", [calendar_id |-> calendar_id, event_uid |-> event_uid],
             tool_get_event(calendars, events, calendar_id, event_uid, f[1], f[2]), "")

update_event ==
  /\ session = "ready"
  /\ last = Idle
  /\ \E calendar_id \in CalendarIds, event_uid \in EventUids, updates \in Updates,
        f \in Faults(3) :
       Apply("update_event",
             [calendar_id |-> calendar_id, event_uid |-> event_uid, updates |-> updates],
             tool_update_event(calendars, events, calendar_id, event_uid, updates, f[1], f[2]),
             "")

delete_event ==
  /\ session = "ready"
  /\ last = Idle
  /\ \E calendar_id \in CalendarIds, event_uid \in EventUids, f \in Faults(3) :
       Apply("delete_event", [calendar_id |-> calendar_id, event_uid |-> event_uid],
             client_delete_event(calendars, events, calendar_id, event_uid, f[1], f[2]), "")

\* The caller takes the result; calls are synchronous, one at a time.
Return ==
  /\ last # Idle
  /\ last' = Idle
  /\ UNCHANGED <<session, calendars, events, uuidCount>>

Next ==
  \/ Return
  \/ Construct
  \/ list_calendars
  \/ create_calendar
  \/ get_calendar
  \/ update_calendar
  \/ delete_calendar
  \/ list_events
  \/ create_event
  \/ get_event
  \/ update_event
  \/ delete_event

Spec == Init /\ [][Next]_vars

(* ============================ the claims ============================== *)
\* A remote call of the sequence was made to fail.
SomeCallFailed(calls) == \E i \in 1..Len(calls) : calls[i].outcome \in Failures
\* A remote call of the given name is in the sequence.
Issued(calls, name) == \E i \in 1..Len(calls) : calls[i].name = name

\* C1: constructing the client with url, username or password empty fails
\* with ConfigurationError (Python's ValueError), whichever of the three are
\* empty, and neither DAVClient(...) nor client.principal() has been called.
C1_EmptyArgumentRejected ==
  (last.op = "__init__"
     /\ (last.args.url = "" \/ last.args.username = "" \/ last.args.password = ""))
  => (last.thrown = ConfigurationError /\ last.calls = <<>> /\ session = "new")

C1_Witness ==
  /\ last.op = "__init__"
  /\ last.args.url # "" /\ last.args.username # "" /\ last.args.password = ""
  /\ last.thrown = ConfigurationError

\* C2: get_calendar with an empty id and get_event with an empty uid return
\* None and issue no remote call, whatever the calendar id and the server.
C2_EmptyIdIssuesNoRemoteCall ==
  (\/ (last.op = "get_calendar" /\ last.args.calendar_id = "")
   \/ (last.op = "get_event" /\ last.args.event_uid = ""))
  => (last.result = Nil /\ last.calls = <<>>)

\* C3: create_event with an empty summary returns None and issues no remote
\* call, whatever the calendar id, start, end and description.
C3_EmptySummaryIssuesNoRemoteCall ==
  (last.op = "create_event" /\ last.args.summary = "")
  => (last.result = Nil /\ last.calls = <<>>)

\* C4: any failure of a remote call inside list_calendars is thrown as
\* ConnectionError; the same failure inside get_calendar gives None and
\* inside delete_calendar gives False, and nothing is thrown.
C4_FailurePropagation ==
  SomeCallFailed(last.calls) =>
    /\ last.op = "list_calendars" => last.thrown = "ConnectionError"
    /\ last.op = "get_calendar" => (last.thrown = NoExc /\ last.result = Nil)
    /\ last.op = "delete_calendar" => (last.thrown = NoExc /\ last.result = Bool(FALSE))

\* C5: no call of create_calendar, get_calendar, update_calendar,
\* delete_calendar, list_events, create_event, get_event, delete_event or
\* update_event ends by throwing, whatever fails inside it.
C5_NothingThrown ==
  last.op \in {"create_calendar", "get_calendar", "update_calendar", "delete_calendar",
               "list_events", "create_event", "get_event", "delete_event", "update_event"}
  => last.thrown = NoExc

\* get_event(cal, uid) called now, its remote calls succeeding.
GetEventNow(calendar_id, event_uid) ==
  tool_get_event(calendars, events, calendar_id, event_uid, 0, "ok").result

CreateEventSucceeded ==
  last.op = "create_event" /\ last.thrown = NoExc /\ last.result # Nil

RoundTrip(start_time, end_time) ==
  LET got == GetEventNow(last.args.calendar_id, last.result.id)
  IN  /\ got # Nil
      /\ got.id # "" /\ got.id = last.result.id /\ got.id = last.uuid
      /\ got.summary = last.args.summary
      /\ got.start_time = start_time
      /\ got.end_time = end_time

\* C6 as stated: after a successful create_event(cal, s, t0, t1) the
\* get_event(cal, returned id) that follows returns summary s, start t0,
\* end t1 and the returned, non-empty id, for every t0 and t1.
C6_RoundTripEveryTimestamp ==
  CreateEventSucceeded => RoundTrip(last.args.start, last.args.end)

\* A timestamp with no part below the second.
WholeSecond(t) == t % TicksPerSecond = 0
\* The timestamp cut to the second.
ToSecond(t) == t - (t % TicksPerSecond)

\* C6 amended: the round trip returns summary s and the returned id, and
\* start and end cut to the second: t0 and t1 themselves when they are
\* whole seconds.
C6_RoundTripToTheSecond ==
  CreateEventSucceeded =>
    /\ RoundTrip(ToSecond(last.args.start), ToSecond(last.args.end))
    /\ (WholeSecond(last.args.start) /\ WholeSecond(last.args.end))
         => RoundTrip(last.args.start, last.args.end)

C6_Witness ==
  /\ CreateEventSucceeded
  /\ last.args.start = 0 /\ last.args.end = TicksPerSecond
  /\ GetEventNow(last.args.calendar_id, last.result.id).end_time = TicksPerSecond

\* The step that runs update_event and returns an event.
UpdateEventSucceeds ==
  last = Idle /\ last'.op = "update_event" /\ last'.thrown = NoExc /\ last'.result # Nil

\* C7: a successful update_event(cal, uid, updates) is made on an event the
\* calendar holds; the get_event that follows shows every value of the map
\* (summary == v for {"summary": v}) and, for a map that names summary
\* alone, id, start, end and description as the get_event before showed
\* them; on the stored record the fields the map names are overwritten or,
\* when the record lacks them, added, the others keep their values, and no
\* other event and no calendar is changed.
C7_UpdateEventPatchesOnlyNamedFields ==
  [][UpdateEventSucceeds =>
       LET c == last'.args.calendar_id
           u == last'.args.event_uid
           updates == last'.args.updates
           before == events[<<c, u>>]
           after == events'[<<c, u>>]
           shown == tool_get_event(calendars, events, c, u, 0, "ok").result
           shown2 == tool_get_event(calendars', events', c, u, 0, "ok").result
       IN  /\ <<c, u>> \in DOMAIN events
           /\ shown2 # Nil /\ shown2 = last'.result
           /\ "summary" \in DOMAIN updates => shown2.summary = updates.summary
           /\ DOMAIN updates = {"summary"} =>
                /\ shown2.id = shown.id
                /\ shown2.start_time = shown.start_time
                /\ shown2.end_time = shown.end_time
                /\ shown2.description = shown.description
           /\ DOMAIN after = (DOMAIN before) \cup (DOMAIN updates)
           /\ \A k \in DOMAIN updates : after[k] = serialize(updates)[k]
           /\ \A k \in (DOMAIN before) \ (DOMAIN updates) : after[k] = before[k]
           /\ DOMAIN events' = DOMAIN events
           /\ \A k \in (DOMAIN events) \ {<<c, u>>} : events'[k] = events[k]
           /\ calendars' = calendars
    ]_vars

\* A rename answered while the calendar holds a second event.
C7_Witness ==
  /\ last.op = "update_event" /\ last.result # Nil
  /\ last.args.updates = [summary |-> "Renamed"]
  /\ last.result.summary = "Renamed"
  /\ events[<<last.args.calendar_id, last.args.event_uid>>].summary = "Renamed"
  /\ \E k \in DOMAIN events :
       k[1] = last.args.calendar_id /\ k[2] # last.args.event_uid

\* C8: delete_event(cal, uid) returns True exactly when the calendar holds
\* the event and no remote call fails; the event is then gone, so that the
\* get_event that follows returns None and a second delete_event returns
\* False; for an event the calendar does not hold get_event returns None and
\* delete_event False; and an event comes to be held only by the create_event
\* that generated its uid.
C8_DeleteEventOnce ==
  [][/\ (last = Idle /\ last'.op = "delete_event") =>
          LET c == last'.args.calendar_id
              u == last'.args.event_uid
          IN  /\ last'.result = Bool(TRUE)
                   <=> (<<c, u>> \in DOMAIN events /\ ~SomeCallFailed(last'.calls))
              /\ last'.result = Bool(TRUE) =>
                   /\ DOMAIN events' = (DOMAIN events) \ {<<c, u>>}
                   /\ tool_get_event(calendars', events', c, u, 0, "ok").result = Nil
                   /\ client_delete_event(calendars', events', c, u, 0, "ok").result
                        = Bool(FALSE)
              /\ (<<c, u>> \notin DOMAIN events /\ last'.thrown = NoExc) =>
                   last'.result = Bool(FALSE)
     /\ (last = Idle /\ last'.op = "get_event"
         /\ <<last'.args.calendar_id, last'.args.event_uid>> \notin DOMAIN events) =>
          last'.result = Nil
     /\ \A k \in (DOMAIN events') \ (DOMAIN events) :
          last'.op = "create_event" /\ last'.uuid = k[2] /\ last'.result # Nil
    ]_vars

C8_Witness ==
  /\ last.op = "delete_event" /\ last.result = Bool(TRUE)
  /\ <<last.args.calendar_id, last.args.event_uid>> \notin DOMAIN events
  /\ last.args.calendar_id \in DOMAIN calendars

\* The fetch of the calendar was answered with the calendar.
FetchSucceeded(calls) ==
  Len(calls) >= 1 /\ calls[1] = Call("principal.calendar", "ok")

\* C9: update_calendar and delete_calendar issue set_properties / delete
\* only as the call after a fetch of the calendar that succeeded; when the
\* fetch gives None (empty id, not found, protocol error) the mutating call
\* is not issued, the server is unchanged and the result is None / False;
\* update_calendar with an empty name returns None with no call issued.
C9_MutationOnlyAfterFetch ==
  [][(last = Idle /\ last'.op \in {"update_calendar", "delete_calendar"}) =>
       LET calls == last'.calls
           mutating == IF last'.op = "update_calendar"
                       THEN "calendar.set_properties" ELSE "calendar.delete"
           sentinel == IF last'.op = "update_calendar" THEN Nil ELSE Bool(FALSE)
       IN  /\ Issued(calls, mutating) =>
                (FetchSucceeded(calls) /\ Len(calls) = 2 /\ calls[2].name = mutating)
           /\ ~FetchSucceeded(calls) =>
                /\ ~Issued(calls, mutating)
                /\ calendars' = calendars /\ events' = events
                /\ last'.thrown = NoExc => last'.result = sentinel
           /\ (last'.op = "update_calendar" /\ last'.args.name = "") =>
                (calls = <<>> /\ last'.result = Nil /\ calendars' = calendars)
    ]_vars

\* update_calendar of a calendar the server holds, with an empty name.
C9_Witness ==
  /\ last.op = "update_calendar"
  /\ last.args.name = "" /\ last.args.calendar_id \in DOMAIN calendars
  /\ last.calls = <<>> /\ last.result = Nil

\* make_calendar succeeded and the set_properties after it failed.
DescriptionSetFailed ==
  /\ last.op = "create_calendar"
  /\ last.calls = <<Call("principal.make_calendar", "ok"),
                    Call("calendar.set_properties", "DAVError")>>

\* C10: when make_calendar succeeds and the set_properties that follows
\* fails with a protocol error, create_calendar returns None and the new
\* calendar, under its fresh id and with no description, is on the server.
C10_NoRollback ==
  DescriptionSetFailed =>
    /\ last.result = Nil /\ last.thrown = NoExc
    /\ last.args.description # ""
    /\ last.uuid \in DOMAIN calendars
    /\ calendars[last.uuid] = [name |-> last.args.name, description |-> None]

C10_Witness ==
  DescriptionSetFailed /\ last.result = Nil /\ last.uuid \in DOMAIN calendars

====
